---- MODULE Spec2Model ----
(***************************************************************************)
(* Model of src/app.py: the retrying generation client                     *)
(* (call_gemini_api_with_retry), the reply parser (parse_ats_response) and *)
(* the place where upload_resume chains them.                              *)
(*                                                                         *)
(* Text is a sequence of tokens.  A token is one character, except that    *)
(* the literal labels "ATS Score:" and "Suggestions:", the tail "/100",    *)
(* the fixed messages of the parser and one run of 4301 digits are single  *)
(* tokens: no other token is a piece of them, so searching for a label is  *)
(* searching for its token.                                                *)
(***************************************************************************)
EXTENDS Integers, Sequences, FiniteSets, TLC

\* ------------------------------------------------------------------------
\* Bounds of the checked instances
\* ------------------------------------------------------------------------
MaxLines == 3
MaxServiceLines == 2
MaxBullets == 2
MaxRetriesArg == 5
MaxInitialDelayArg == 2
MaxRequests == 2

\* ------------------------------------------------------------------------
\* Python values
\* ------------------------------------------------------------------------
PyNone == [t |-> "none"]
PyStr(s) == [t |-> "str", s |-> s]
PyInt(n) == [t |-> "int", n |-> n]
PyBool(b) == [t |-> "bool", b |-> b]
PyList(items) == [t |-> "list", items |-> items]
PyDict(pairs) == [t |-> "dict", pairs |-> pairs]

\* bool(v): None, False, 0, "", [] and {} are falsy
Truthy(v) ==
  CASE v.t = "none" -> FALSE
    [] v.t = "str" -> v.s # <<>>
    [] v.t = "int" -> v.n # 0
    [] v.t = "bool" -> v.b
    [] v.t = "list" -> v.items # <<>>
    [] v.t = "dict" -> v.pairs # <<>>

\* an evaluation either yields a value or raises
Value(v) == [ok |-> TRUE, v |-> v, exc |-> ""]
Raise(e) == [ok |-> FALSE, v |-> PyNone, exc |-> e]

\* v.get(key): only a dict has the method; a missing key gives None
Get(v, key) ==
  IF v.t # "dict" THEN Raise("AttributeError")
  ELSE IF \E p \in 1..Len(v.pairs) : v.pairs[p][1] = key
  THEN Value(v.pairs[CHOOSE p \in 1..Len(v.pairs) : v.pairs[p][1] = key][2])
  ELSE Value(PyNone)

\* v[0], evaluated only on truthy v: the keys of a JSON object are strings
Index0(v) ==
  CASE v.t = "list" -> Value(v.items[1])
    [] v.t = "str" -> Value(PyStr(<<v.s[1]>>))
    [] v.t = "dict" -> Raise("KeyError")
    [] OTHER -> Raise("TypeError")

\* ------------------------------------------------------------------------
\* Tokens and the str methods the parser uses
\* ------------------------------------------------------------------------
ScoreLabel == "ATS Score:"
Heading == "Suggestions:"
NL == "\n"
Hyphen == "-"
Space == " "
Whitespace == {" ", "\t", "\r"}
\* one token standing for a run of IntMaxStrDigits + 1 digit characters
LongDigits == "9{4301}"
DigitChars == <<"0", "1", "2", "3", "4", "5", "6", "7", "8", "9">>
DigitVal(c) == CHOOSE d \in 0..9 : DigitChars[d + 1] = c
IsDigit(c) == (\E d \in 0..9 : DigitChars[d + 1] = c) \/ c = LongDigits

RECURSIVE LStripChars(_, _)
LStripChars(s, chars) ==
  IF s # <<>> /\ Head(s) \in chars THEN LStripChars(Tail(s), chars) ELSE s

RECURSIVE RStripChars(_, _)
RStripChars(s, chars) ==
  IF s # <<>> /\ s[Len(s)] \in chars THEN RStripChars(SubSeq(s, 1, Len(s) - 1), chars) ELSE s

Strip(s) == RStripChars(LStripChars(s, Whitespace), Whitespace)

StartsWith(s, c) == s # <<>> /\ Head(s) = c

Contains(s, c) == \E p \in 1..Len(s) : s[p] = c

RECURSIVE Split(_)
Split(s) ==
  IF \E p \in 1..Len(s) : s[p] = NL
  THEN LET p == CHOOSE q \in 1..Len(s) : s[q] = NL /\ \A r \in 1..(q - 1) : s[r] # NL
       IN <<SubSeq(s, 1, p - 1)>> \o Split(SubSeq(s, p + 1, Len(s)))
  ELSE <<s>>

\* ------------------------------------------------------------------------
\* re.search(r"ATS Score:\s*(\d+)", line)
\* ------------------------------------------------------------------------
RECURSIVE SkipWs(_, _)
SkipWs(line, p) ==
  IF p <= Len(line) /\ line[p] \in Whitespace THEN SkipWs(line, p + 1) ELSE p

RECURSIVE DigitRun(_, _)
DigitRun(line, p) ==
  IF p <= Len(line) /\ IsDigit(line[p]) THEN <<line[p]>> \o DigitRun(line, p + 1) ELSE <<>>

MatchAt(line, p) ==
  /\ line[p] = ScoreLabel
  /\ DigitRun(line, SkipWs(line, p + 1)) # <<>>

ScoreSearch(line) ==
  IF \E p \in 1..Len(line) : MatchAt(line, p)
  THEN LET p == CHOOSE q \in 1..Len(line) : MatchAt(line, q) /\ \A r \in 1..(q - 1) : ~MatchAt(line, r)
       IN [matched |-> TRUE, group |-> DigitRun(line, SkipWs(line, p + 1))]
  ELSE [matched |-> FALSE, group |-> <<>>]

\* ------------------------------------------------------------------------
\* int(str) and str(int)
\* ------------------------------------------------------------------------
\* CPython's default limit on the digits of a str -> int conversion
IntMaxStrDigits == 4300

RECURSIVE DigitCount(_)
DigitCount(ds) ==
  IF ds = <<>> THEN 0
  ELSE (IF Head(ds) = LongDigits THEN IntMaxStrDigits + 1 ELSE 1) + DigitCount(Tail(ds))

RECURSIVE DigitsValue(_)
DigitsValue(ds) ==
  IF ds = <<>> THEN 0 ELSE DigitsValue(SubSeq(ds, 1, Len(ds) - 1)) * 10 + DigitVal(ds[Len(ds)])

\* int(ds) raises ValueError when ds has more digits than the interpreter's
\* limit for str -> int conversion
IntOf(ds) ==
  IF DigitCount(ds) > IntMaxStrDigits
  THEN [ok |-> FALSE, n |-> 0]
  ELSE [ok |-> TRUE, n |-> DigitsValue(ds)]

DigitTok(d) == DigitChars[d + 1]

RECURSIVE Decimal(_)
Decimal(n) == IF n < 10 THEN <<DigitTok(n)>> ELSE Decimal(n \div 10) \o <<DigitTok(n % 10)>>

\* str(v) for the two kinds of value the score variable holds
StrOf(v) == IF v.t = "int" THEN Decimal(v.n) ELSE v.s

\* ------------------------------------------------------------------------
\* parse_ats_response
\* ------------------------------------------------------------------------
NA == <<"N/A">>
NoResponseMsg == <<"Could not get a response from AI.">>
KeywordFiller == <<"No specific suggestions were provided, but ensure your resume closely matches the job description keywords.">>
CouldNotParseFiller == <<"Could not parse response or no specific suggestions provided. Ensure the job type is clear.">>

NoResult == [atsScore |-> PyNone, suggestions |-> <<>>]

\* variant: the missing reply reported as a score of 0
NoResponseResult_ZeroScore == [atsScore |-> PyInt(0), suggestions |-> <<NoResponseMsg>>]

\* the value returned when gemini_output is falsy
NoResponseResult == [atsScore |-> PyStr(NA), suggestions |-> <<NoResponseMsg>>]

\* variant: the fallback for a plain line does not test for earlier suggestions
ParseLineStep_AlwaysFallback(line, sc, sugg) ==
  LET score_match == ScoreSearch(line) IN
  IF score_match.matched
  THEN [score |-> IF IntOf(score_match.group).ok THEN PyInt(IntOf(score_match.group).n) ELSE sc,
        suggestions |-> sugg]
  ELSE IF StartsWith(Strip(line), Hyphen)
  THEN [score |-> sc,
        suggestions |-> Append(sugg, Strip(LStripChars(Strip(line), {Hyphen, Space})))]
  ELSE IF Contains(line, Heading)
  THEN [score |-> sc, suggestions |-> sugg]
  ELSE IF Strip(line) # <<>> /\ ~Contains(line, ScoreLabel)
  THEN [score |-> sc, suggestions |-> Append(sugg, Strip(line))]
  ELSE [score |-> sc, suggestions |-> sugg]

\* variant: a failed int() conversion coerces the score to 0
ParseLineStep_ZeroOnError(line, sc, sugg) ==
  LET score_match == ScoreSearch(line) IN
  IF score_match.matched
  THEN [score |-> PyInt(IntOf(score_match.group).n), suggestions |-> sugg]
  ELSE IF StartsWith(Strip(line), Hyphen)
  THEN [score |-> sc,
        suggestions |-> Append(sugg, Strip(LStripChars(Strip(line), {Hyphen, Space})))]
  ELSE IF Contains(line, Heading)
  THEN [score |-> sc, suggestions |-> sugg]
  ELSE IF Strip(line) # <<>> /\ sugg = <<>> /\ ~Contains(line, ScoreLabel)
  THEN [score |-> sc, suggestions |-> Append(sugg, Strip(line))]
  ELSE [score |-> sc, suggestions |-> sugg]

\* variant: a bullet line is appended without removing its hyphen
ParseLineStep_KeepsHyphen(line, sc, sugg) ==
  LET score_match == ScoreSearch(line) IN
  IF score_match.matched
  THEN [score |-> IF IntOf(score_match.group).ok THEN PyInt(IntOf(score_match.group).n) ELSE sc,
        suggestions |-> sugg]
  ELSE IF StartsWith(Strip(line), Hyphen)
  THEN [score |-> sc, suggestions |-> Append(sugg, Strip(line))]
  ELSE IF Contains(line, Heading)
  THEN [score |-> sc, suggestions |-> sugg]
  ELSE IF Strip(line) # <<>> /\ sugg = <<>> /\ ~Contains(line, ScoreLabel)
  THEN [score |-> sc, suggestions |-> Append(sugg, Strip(line))]
  ELSE [score |-> sc, suggestions |-> sugg]

\* one iteration of the loop over the lines of the reply
ParseLineStep(line, sc, sugg) ==
  LET score_match == ScoreSearch(line) IN
  IF score_match.matched
  THEN [score |-> IF IntOf(score_match.group).ok THEN PyInt(IntOf(score_match.group).n) ELSE sc,
        suggestions |-> sugg]
  ELSE IF StartsWith(Strip(line), Hyphen)
  THEN [score |-> sc,
        suggestions |-> Append(sugg, Strip(LStripChars(Strip(line), {Hyphen, Space})))]
  ELSE IF Contains(line, Heading)
  THEN [score |-> sc, suggestions |-> sugg]
  ELSE IF Strip(line) # <<>> /\ sugg = <<>> /\ ~Contains(line, ScoreLabel)
  THEN [score |-> sc, suggestions |-> Append(sugg, Strip(line))]
  ELSE [score |-> sc, suggestions |-> sugg]

\* variant: no filler is substituted
PostProcess_NoFiller(sc, sugg) == sugg

\* variant: the two fillers exchanged
PostProcess_Swapped(sc, sugg) ==
  IF sugg = <<>> /\ ~Contains(StrOf(sc), "N/A")
  THEN <<CouldNotParseFiller>>
  ELSE IF sugg = <<>>
  THEN <<KeywordFiller>>
  ELSE sugg

\* the substitution of a filler after the loop
PostProcess(sc, sugg) ==
  IF sugg = <<>> /\ ~Contains(StrOf(sc), "N/A")
  THEN <<KeywordFiller>>
  ELSE IF sugg = <<>>
  THEN <<CouldNotParseFiller>>
  ELSE sugg

\* ------------------------------------------------------------------------
\* Inputs
\* ------------------------------------------------------------------------
Lines == {
  <<>>,
  <<Space>>,
  <<ScoreLabel, Space, "8", "2", "/100">>,
  <<ScoreLabel, "0", "7">>,
  <<"a", Space, ScoreLabel, Space, "7", "/100">>,
  <<ScoreLabel, Space, LongDigits>>,
  <<ScoreLabel, Space, "a">>,
  <<Heading>>,
  <<Heading, Space, "a">>,
  <<Hyphen, Space, "a">>,
  <<Space, Hyphen, "b", Space>>,
  <<Hyphen>>,
  <<Hyphen, Space, ScoreLabel, Space, "0">>,
  <<"a">>,
  <<Space, "b", Space, Hyphen>> }

RECURSIVE Join(_)
Join(ls) == IF Len(ls) = 1 THEN ls[1] ELSE ls[1] \o <<NL>> \o Join(Tail(ls))

SeqsUpTo(S, n) == UNION {[1..k -> S] : k \in 1..n}

Texts == {Join(ls) : ls \in SeqsUpTo(Lines, MaxLines)}

TemplateScores == {82, 7}
BulletTexts == {<<"a">>, <<"b", Space, "a">>, <<"a", Hyphen, "b">>, <<"a", Space, Heading>>}
ScoreLine(n) == <<ScoreLabel, Space>> \o Decimal(n) \o <<"/100">>
BulletLine(text) == <<Hyphen, Space>> \o text
Template(n, texts) ==
  Join(<<ScoreLine(n), <<Heading>>>> \o [k \in 1..Len(texts) |-> BulletLine(texts[k])])
TemplateTexts ==
  {Template(n, texts) : n \in TemplateScores, texts \in SeqsUpTo(BulletTexts, MaxBullets)}

ParseInputs == {PyNone} \cup {PyStr(s) : s \in Texts \cup TemplateTexts}

ServiceTexts == {Join(ls) : ls \in SeqsUpTo(Lines, MaxServiceLines)} \cup TemplateTexts

\* ------------------------------------------------------------------------
\* The bodies response.json() can return
\* ------------------------------------------------------------------------
Obj(key, v) == PyDict(<<<<key, v>>>>)
OtherObj == Obj("other", PyInt(7))

AtResult(x) == x
AtCandidates(x) == AtResult(Obj("candidates", x))
AtCandidate0(x) == AtCandidates(PyList(<<x>>))
AtContent(x) == AtCandidate0(Obj("content", x))
AtParts(x) == AtContent(Obj("parts", x))
AtPart0(x) == AtParts(PyList(<<x>>))
AtText(x) == AtPart0(Obj("text", x))

Empties == {PyNone, PyStr(<<>>), PyList(<<>>), PyDict(<<>>)}
Deviants == Empties \cup {PyStr(<<"a">>), PyInt(0), PyInt(7), PyBool(TRUE), PyList(<<PyInt(7)>>), OtherObj}

AtLevel(k, x) ==
  CASE k = 0 -> AtResult(x) [] k = 1 -> AtCandidates(x) [] k = 2 -> AtCandidate0(x)
    [] k = 3 -> AtContent(x) [] k = 4 -> AtParts(x) [] k = 5 -> AtPart0(x) [] k = 6 -> AtText(x)

TextBodies == {AtText(PyStr(s)) : s \in ServiceTexts}
Bodies == {AtLevel(k, x) : k \in 0..6, x \in Deviants} \cup TextBodies

\* what requests.post, raise_for_status and response.json() raise: all are
\* subclasses of requests.exceptions.RequestException (JSONDecodeError is one
\* since requests 2.27)
RequestExceptions == {"ConnectionError", "Timeout", "HTTPError", "JSONDecodeError"}

Outcome(kind, body) == [kind |-> kind, body |-> body]
TransportOutcomes ==
  {Outcome(e, PyNone) : e \in RequestExceptions} \cup {Outcome("json", b) : b \in Bodies}

\* ------------------------------------------------------------------------
\* call_gemini_api_with_retry
\* ------------------------------------------------------------------------
DefaultMaxRetries == 5
DefaultInitialDelay == 1

\* the test of the if statement on the decoded body, and its two branches
ExtractText(result) ==
  IF ~Truthy(result) THEN Value(PyNone) ELSE
  LET candidates == Get(result, "candidates") IN
  IF ~candidates.ok THEN candidates ELSE
  IF ~Truthy(candidates.v) THEN Value(PyNone) ELSE
  LET candidate0 == Index0(candidates.v) IN
  IF ~candidate0.ok THEN candidate0 ELSE
  LET content == Get(candidate0.v, "content") IN
  IF ~content.ok THEN content ELSE
  IF ~Truthy(content.v) THEN Value(PyNone) ELSE
  LET parts == Get(content.v, "parts") IN
  IF ~parts.ok THEN parts ELSE
  IF ~Truthy(parts.v) THEN Value(PyNone) ELSE
  LET part0 == Index0(parts.v) IN
  IF ~part0.ok THEN part0 ELSE
  LET text == Get(part0.v, "text") IN
  IF ~text.ok THEN text ELSE
  IF ~Truthy(text.v) THEN Value(PyNone) ELSE Value(text.v)

\* variant: the exponent counts attempts from 1
Delay_FromOne(k, initial) == initial * 2 ^ (k + 1)

\* variant: linear instead of exponential backoff
Delay_Linear(k, initial) == initial * (k + 1)

Delay(k, initial) == initial * 2 ^ k

\* variant: a sleep follows the final attempt too
SleepsAfter_Every(k, retries) == k < retries

SleepsAfter(k, retries) == k < retries - 1

\* variant: a soft failure is retried like a transport failure
Iteration_SoftRetries(out, k, retries, initial) ==
  LET r == IF out.kind \in RequestExceptions THEN Value(PyNone) ELSE ExtractText(out.body) IN
  IF out.kind \in RequestExceptions \/ (r.ok /\ r.v = PyNone)
  THEN IF SleepsAfter(k, retries)
       THEN [next |-> "retry", value |-> PyNone, slept |-> <<Delay(k, initial)>>, exc |-> ""]
       ELSE [next |-> "return", value |-> PyNone, slept |-> <<>>, exc |-> ""]
  ELSE IF r.ok
       THEN [next |-> "return", value |-> r.v, slept |-> <<>>, exc |-> ""]
       ELSE [next |-> "raise", value |-> PyNone, slept |-> <<>>, exc |-> r.exc]

\* variant: the text is returned only after the backoff sleep
Iteration_SleepsBeforeReturn(out, k, retries, initial) ==
  IF out.kind \in RequestExceptions
  THEN IF SleepsAfter(k, retries)
       THEN [next |-> "retry", value |-> PyNone, slept |-> <<Delay(k, initial)>>, exc |-> ""]
       ELSE [next |-> "return", value |-> PyNone, slept |-> <<>>, exc |-> ""]
  ELSE LET r == ExtractText(out.body) IN
       IF r.ok
       THEN [next |-> "return", value |-> r.v, slept |-> <<Delay(k, initial)>>, exc |-> ""]
       ELSE [next |-> "raise", value |-> PyNone, slept |-> <<>>, exc |-> r.exc]

\* one pass through the body of the for loop, given what requests.post,
\* raise_for_status and response.json() did
Iteration(out, k, retries, initial) ==
  IF out.kind \in RequestExceptions
  THEN IF SleepsAfter(k, retries)
       THEN [next |-> "retry", value |-> PyNone, slept |-> <<Delay(k, initial)>>, exc |-> ""]
       ELSE [next |-> "return", value |-> PyNone, slept |-> <<>>, exc |-> ""]
  ELSE LET r == ExtractText(out.body) IN
       IF r.ok
       THEN [next |-> "return", value |-> r.v, slept |-> <<>>, exc |-> ""]
       ELSE [next |-> "raise", value |-> PyNone, slept |-> <<>>, exc |-> r.exc]

\* ------------------------------------------------------------------------
\* State
\* ------------------------------------------------------------------------
VARIABLES
  pc,            \* control point
  exc,           \* the exception propagating out, "" when none
  max_retries, initial_delay,   \* arguments of call_gemini_api_with_retry
  i,             \* loop variable of call_gemini_api_with_retry
  calls,         \* number of requests.post calls made
  delays,        \* the arguments of time.sleep, in order
  last,          \* outcome of the latest requests.post
  gemini_response,  \* value returned by call_gemini_api_with_retry
  gemini_output, \* argument of parse_ats_response
  lines, idx,    \* the split reply and the position of the scan in it
  score, suggestions,   \* locals of parse_ats_response
  parsed,        \* value returned by parse_ats_response
  request,       \* the upload request being handled
  uploads,       \* the files of the uploads folder, by name
  resume_text, job_type, ats_prompt,   \* locals of upload_resume
  store,         \* the rows of the results table
  write,         \* what the INSERT of the current request did
  response,      \* the response sent for the latest request
  clock,         \* datetime.now(), one tick per request received
  threads        \* the concurrent requests between save and response

vars == <<pc, exc, max_retries, initial_delay, i, calls, delays, last,
          gemini_response, gemini_output, lines, idx, score, suggestions, parsed,
          request, uploads, resume_text, job_type, ats_prompt, store, write,
          response, clock, threads>>

genVars == <<max_retries, initial_delay, i, calls, delays, last, gemini_response>>
parseVars == <<gemini_output, lines, idx, score, suggestions, parsed>>

uploadVars == <<request, uploads, resume_text, job_type, ats_prompt, store, write,
                response, clock, threads>>

NoOutcome == [kind |-> "none", body |-> PyNone]

\* ------------------------------------------------------------------------
\* upload_resume: requests, files, the results table
\* ------------------------------------------------------------------------
\* a PDF: whether PdfReader can open it, and what extract_text() gives per page
Pdf(readable, pages) == [readable |-> readable, pages |-> pages]
ResumeA == Pdf(TRUE, <<PyStr(<<"A", "1">>), PyNone, PyStr(<<"A", "2">>)>>)
ResumeB == Pdf(TRUE, <<PyStr(<<"B">>)>>)
ScannedPdf == Pdf(TRUE, <<PyNone, PyStr(<<>>)>>)
CorruptPdf == Pdf(FALSE, <<>>)
Docs == {ResumeA, ResumeB, ScannedPdf, CorruptPdf}

PdfNames == {<<"cv", ".pdf">>, <<"b", ".pdf">>}
Filenames == PdfNames \cup {<<>>, <<"cv", ".txt">>, <<"cv", ".PDF">>}

Forms == {PyNone, PyStr(<<>>), PyStr(<<Space>>), PyStr(<<Space, "q", Space, "a", Space>>), PyStr(<<"d">>)}

UploadRequest(has_file, filename, doc, form) ==
  [has_file |-> has_file, filename |-> filename, doc |-> doc, form |-> form]
NoRequest == UploadRequest(FALSE, <<>>, CorruptPdf, PyNone)

\* the requests of the sequential handler
UploadRequests ==
  {UploadRequest(FALSE, <<>>, CorruptPdf, f) : f \in {PyNone, PyStr(<<"d">>)}}
    \cup {UploadRequest(TRUE, n, ResumeA, PyNone) : n \in Filenames}
    \cup {UploadRequest(TRUE, <<"cv", ".pdf">>, d, f) : d \in {ResumeA, ScannedPdf, CorruptPdf}, f \in Forms}

\* the requests of two concurrent handlers
ConcurrentRequests == {UploadRequest(TRUE, n, d, PyNone) : n \in PdfNames, d \in Docs}

EndsWith(s, c) == s # <<>> /\ s[Len(s)] = c

\* variant: the test of the file extension is missing
Validate_AnyName(req) ==
  IF ~req.has_file THEN "No resume file part"
  ELSE IF req.filename = <<>> THEN "No selected file"
  ELSE "ok"

\* the three tests before the file is saved
Validate(req) ==
  IF ~req.has_file THEN "No resume file part"
  ELSE IF req.filename = <<>> THEN "No selected file"
  ELSE IF EndsWith(req.filename, ".pdf") THEN "ok"
  ELSE "Invalid file type. Only PDF is supported."

NoFile == <<>>
EmptyFolder == [n \in Filenames \ {<<>>} |-> NoFile]

RECURSIVE PagesText(_)
PagesText(pages) ==
  IF pages = <<>> THEN <<>>
  ELSE (IF Truthy(Head(pages)) THEN Head(pages).s ELSE <<>>) \o PagesText(Tail(pages))

\* extract_text_from_pdf: any exception (missing file, unreadable PDF) gives None
extract_text_from_pdf(folder, name) ==
  IF folder[name] = NoFile THEN PyNone
  ELSE IF ~folder[name][1].readable THEN PyNone
  ELSE PyStr(PagesText(folder[name][1].pages))

DefaultJobType == <<"General Job">>

\* variant: the submitted value is used as it is
JobTypeOf_Untrimmed(form) ==
  IF form = PyNone THEN DefaultJobType ELSE form.s

\* request.form.get('job_type', 'General Job').strip(), defaulted when empty
JobTypeOf(form) ==
  LET stripped == Strip(IF form = PyNone THEN DefaultJobType ELSE form.s) IN
  IF stripped = <<>> THEN DefaultJobType ELSE stripped

BuildPrompt(jt, text) ==
  <<"Analyze the following resume text against the job type \"">> \o jt
    \o <<"\" to determine an ATS compatibility score out of 100. Resume Text:">> \o text
    \o <<"Expected Output Format: ATS Score: [SCORE]/100 Suggestions: - Suggestion 1 - Suggestion 2">>

\* json.dumps of a list of str
JsonEscape(c) ==
  IF c \in {"\"", "\\"} THEN <<"\\", c>>
  ELSE IF c = NL THEN <<"\\", "n">>
  ELSE <<c>>

RECURSIVE JsonString(_)
JsonString(str) == IF str = <<>> THEN <<>> ELSE JsonEscape(Head(str)) \o JsonString(Tail(str))

RECURSIVE JsonItems(_)
JsonItems(list) ==
  IF list = <<>> THEN <<>>
  ELSE <<"\"">> \o JsonString(Head(list)) \o <<"\"">>
         \o (IF Len(list) > 1 THEN <<",", Space>> ELSE <<>>) \o JsonItems(Tail(list))

JsonDumps(list) == <<"[">> \o JsonItems(list) \o <<"]">>

\* variant: a falsy score is stored as NULL
AtsScoreVal_Falsy(result) == IF Truthy(result.atsScore) /\ result.atsScore.t = "int" THEN result.atsScore ELSE PyNone

\* parsed_response["atsScore"] if isinstance(..., int) else None
AtsScoreVal(result) == IF result.atsScore.t = "int" THEN result.atsScore ELSE PyNone

\* the row of one INSERT, id from AUTOINCREMENT
Row(rows, timestamp, text, jt, result) ==
  [id |-> Len(rows) + 1, timestamp |-> timestamp, resume_text |-> text, job_type |-> jt,
   ats_score |-> AtsScoreVal(result), suggestions |-> JsonDumps(result.suggestions)]

Response(status, error, result, text) ==
  [status |-> status, error |-> error, atsScore |-> result.atsScore,
   suggestions |-> result.suggestions, extracted_text |-> text]
ErrorResponse(status, error) == Response(status, error, NoResult, <<>>)
NoResponse == ErrorResponse(0, "")
ExtractionError == "Failed to extract text from PDF. Please ensure it's a searchable PDF."

NoThreads == <<>>

UploadIdle ==
  /\ request = NoRequest
  /\ uploads = EmptyFolder
  /\ resume_text = PyNone /\ job_type = <<>> /\ ats_prompt = <<>>
  /\ store = <<>>
  /\ write = "none"
  /\ response = NoResponse
  /\ clock = 0
  /\ threads = NoThreads

\* ------------------------------------------------------------------------
\* parse_ats_response, step by step
\* ------------------------------------------------------------------------
ParseEnter ==
  /\ pc = "parse"
  /\ IF ~Truthy(gemini_output)
     THEN /\ parsed' = NoResponseResult
          /\ pc' = "done"
          /\ UNCHANGED <<exc, lines, idx, score, suggestions>>
     ELSE IF gemini_output.t # "str"
     THEN /\ pc' = "raised"
          /\ exc' = "AttributeError"
          /\ UNCHANGED <<lines, idx, score, suggestions, parsed>>
     ELSE /\ score' = PyStr(NA)
          /\ suggestions' = <<>>
          /\ lines' = Split(gemini_output.s)
          /\ idx' = 1
          /\ pc' = "scan"
          /\ UNCHANGED <<exc, parsed>>
  /\ UNCHANGED <<gemini_output>>
  /\ UNCHANGED genVars
  /\ UNCHANGED uploadVars

ParseLine ==
  /\ pc = "scan"
  /\ idx <= Len(lines)
  /\ LET r == ParseLineStep(lines[idx], score, suggestions) IN
       /\ score' = r.score
       /\ suggestions' = r.suggestions
  /\ idx' = idx + 1
  /\ UNCHANGED <<pc, exc, gemini_output, lines, parsed>>
  /\ UNCHANGED genVars
  /\ UNCHANGED uploadVars

ParseReturn ==
  /\ pc = "scan"
  /\ idx > Len(lines)
  /\ suggestions' = PostProcess(score, suggestions)
  /\ parsed' = [atsScore |-> score, suggestions |-> suggestions']
  /\ pc' = "done"
  /\ UNCHANGED <<exc, gemini_output, lines, idx, score>>
  /\ UNCHANGED genVars
  /\ UNCHANGED uploadVars

InitParse ==
  /\ pc = "parse"
  /\ exc = ""
  /\ max_retries = 0 /\ initial_delay = 0 /\ i = 0 /\ calls = 0 /\ delays = <<>>
  /\ last = NoOutcome
  /\ gemini_response = PyNone
  /\ gemini_output \in ParseInputs
  /\ lines = <<>> /\ idx = 0
  /\ score = PyNone /\ suggestions = <<>>
  /\ parsed = NoResult
  /\ UploadIdle

NextParse == ParseEnter \/ ParseLine \/ ParseReturn

SpecParse == InitParse /\ [][NextParse]_vars

\* ------------------------------------------------------------------------
\* call_gemini_api_with_retry, one loop pass per step
\* ------------------------------------------------------------------------
GenerateWith(outcomes) ==
  /\ pc = "generate"
  /\ IF i >= max_retries
     THEN /\ gemini_response' = PyNone
          /\ pc' = "returned"
          /\ UNCHANGED <<exc, i, calls, delays, last>>
     ELSE \E out \in outcomes :
            LET r == Iteration(out, i, max_retries, initial_delay) IN
              /\ calls' = calls + 1
              /\ last' = out
              /\ delays' = delays \o r.slept
              /\ exc' = r.exc
              /\ IF r.next = "retry"
                 THEN /\ i' = i + 1
                      /\ pc' = "generate"
                      /\ UNCHANGED gemini_response
                 ELSE IF r.next = "return"
                 THEN /\ gemini_response' = r.value
                      /\ pc' = "returned"
                      /\ UNCHANGED i
                 ELSE /\ pc' = "raised"
                      /\ UNCHANGED <<i, gemini_response>>
  /\ UNCHANGED <<max_retries, initial_delay>>
  /\ UNCHANGED parseVars

GenerateStep ==
  /\ GenerateWith(TransportOutcomes)
  /\ UNCHANGED uploadVars

InitGenerate ==
  /\ pc = "generate"
  /\ exc = ""
  /\ max_retries \in 0..MaxRetriesArg
  /\ initial_delay \in 1..MaxInitialDelayArg
  /\ i = 0 /\ calls = 0 /\ delays = <<>>
  /\ last = NoOutcome
  /\ gemini_response = PyNone
  /\ gemini_output = PyNone
  /\ lines = <<>> /\ idx = 0
  /\ score = PyNone /\ suggestions = <<>>
  /\ parsed = NoResult
  /\ UploadIdle

NextGenerate == GenerateStep

SpecGenerate == InitGenerate /\ [][NextGenerate]_vars

\* each attempt ends (timeout=60) and the loop then takes its next pass
SpecGenerateLive == SpecGenerate /\ WF_vars(GenerateStep)

\* ------------------------------------------------------------------------
\* upload_resume: the generation call followed by the parse
\* ------------------------------------------------------------------------
CallParse ==
  /\ pc = "returned"
  /\ gemini_output' = gemini_response
  /\ pc' = "parse"
  /\ UNCHANGED <<exc, lines, idx, score, suggestions, parsed>>
  /\ UNCHANGED genVars
  /\ UNCHANGED uploadVars

Init ==
  /\ pc = "generate"
  /\ exc = ""
  /\ max_retries = DefaultMaxRetries
  /\ initial_delay = DefaultInitialDelay
  /\ i = 0 /\ calls = 0 /\ delays = <<>>
  /\ last = NoOutcome
  /\ gemini_response = PyNone
  /\ gemini_output = PyNone
  /\ lines = <<>> /\ idx = 0
  /\ score = PyNone /\ suggestions = <<>>
  /\ parsed = NoResult
  /\ UploadIdle

Next == GenerateStep \/ CallParse \/ ParseEnter \/ ParseLine \/ ParseReturn

Spec == Init /\ [][Next]_vars

\* ------------------------------------------------------------------------
\* upload_resume, one request after another
\* ------------------------------------------------------------------------
UploadTexts ==
  { Template(82, << <<"a">> >>),
    <<ScoreLabel, Space, "0">>,
    <<Space>>,
    <<Hyphen, Space, "\"", "a", "\\">> }

\* what the generation service does during an upload
UploadOutcomes ==
  { Outcome("Timeout", PyNone),
    Outcome("json", AtCandidates(PyList(<<>>))),
    Outcome("json", AtResult(PyList(<<PyInt(7)>>))),
    Outcome("json", AtText(PyInt(7))) }
    \cup {Outcome("json", AtText(PyStr(s))) : s \in UploadTexts}

\* the request arrives: the tests on the file part and the save
Receive ==
  /\ pc = "idle"
  /\ clock < MaxRequests
  /\ clock' = clock + 1
  /\ \E req \in UploadRequests :
       /\ request' = req
       /\ IF Validate(req) = "ok"
          THEN /\ uploads' = [uploads EXCEPT ![req.filename] = <<req.doc>>]
               /\ response' = NoResponse
               /\ pc' = "saved"
          ELSE /\ response' = ErrorResponse(400, Validate(req))
               /\ pc' = "idle"
               /\ UNCHANGED uploads
  /\ resume_text' = PyNone /\ job_type' = <<>> /\ ats_prompt' = <<>>
  /\ write' = "none"
  /\ exc' = ""
  /\ max_retries' = 0 /\ initial_delay' = 0 /\ i' = 0 /\ calls' = 0 /\ delays' = <<>>
  /\ last' = NoOutcome
  /\ gemini_response' = PyNone
  /\ gemini_output' = PyNone
  /\ lines' = <<>> /\ idx' = 0
  /\ score' = PyNone /\ suggestions' = <<>>
  /\ parsed' = NoResult
  /\ UNCHANGED <<store, threads>>

Extract ==
  /\ pc = "saved"
  /\ resume_text' = extract_text_from_pdf(uploads, request.filename)
  /\ pc' = "extracted"
  /\ UNCHANGED <<exc, request, uploads, job_type, ats_prompt, store, write, response, clock, threads>>
  /\ UNCHANGED genVars
  /\ UNCHANGED parseVars

\* variant: the file is removed only once its text was found usable
Remove_OnlyWithText ==
  /\ pc = "extracted"
  /\ IF uploads[request.filename] = NoFile
     THEN /\ pc' = "raised"
          /\ exc' = "FileNotFoundError"
          /\ UNCHANGED uploads
     ELSE /\ uploads' = IF Truthy(resume_text)
                        THEN [uploads EXCEPT ![request.filename] = NoFile]
                        ELSE uploads
          /\ pc' = "removed"
          /\ UNCHANGED exc
  /\ UNCHANGED <<request, resume_text, job_type, ats_prompt, store, write, response, clock, threads>>
  /\ UNCHANGED genVars
  /\ UNCHANGED parseVars

\* os.remove raises FileNotFoundError when the file is not there
Remove ==
  /\ pc = "extracted"
  /\ IF uploads[request.filename] = NoFile
     THEN /\ pc' = "raised"
          /\ exc' = "FileNotFoundError"
          /\ UNCHANGED uploads
     ELSE /\ uploads' = [uploads EXCEPT ![request.filename] = NoFile]
          /\ pc' = "removed"
          /\ UNCHANGED exc
  /\ UNCHANGED <<request, resume_text, job_type, ats_prompt, store, write, response, clock, threads>>
  /\ UNCHANGED genVars
  /\ UNCHANGED parseVars

\* the test of the extracted text, the job type, the prompt and the entry
\* into call_gemini_api_with_retry with its default arguments
Prepare ==
  /\ pc = "removed"
  /\ IF ~Truthy(resume_text)
     THEN /\ response' = ErrorResponse(500, ExtractionError)
          /\ pc' = "idle"
          /\ UNCHANGED <<job_type, ats_prompt, max_retries, initial_delay>>
     ELSE /\ job_type' = JobTypeOf(request.form)
          /\ ats_prompt' = BuildPrompt(job_type', resume_text.s)
          /\ max_retries' = DefaultMaxRetries
          /\ initial_delay' = DefaultInitialDelay
          /\ pc' = "generate"
          /\ UNCHANGED response
  /\ UNCHANGED <<exc, i, calls, delays, last, gemini_response>>
  /\ UNCHANGED <<request, uploads, resume_text, store, write, clock, threads>>
  /\ UNCHANGED parseVars

UploadGenerate ==
  /\ GenerateWith(UploadOutcomes)
  /\ UNCHANGED uploadVars

\* the INSERT and commit; sqlite3.Error is logged and swallowed
Save ==
  /\ pc = "done"
  /\ \E db \in {"ok", "error"} :
       /\ write' = db
       /\ IF db = "ok"
          THEN store' = Append(store, Row(store, clock, resume_text.s, job_type, parsed))
          ELSE UNCHANGED store
  /\ pc' = "stored"
  /\ UNCHANGED <<exc, request, uploads, resume_text, job_type, ats_prompt, response, clock, threads>>
  /\ UNCHANGED genVars
  /\ UNCHANGED parseVars

Respond ==
  /\ pc = "stored"
  /\ response' = Response(200, "", parsed, resume_text.s)
  /\ pc' = "idle"
  /\ UNCHANGED <<exc, request, uploads, resume_text, job_type, ats_prompt, store, write, clock, threads>>
  /\ UNCHANGED genVars
  /\ UNCHANGED parseVars

\* an exception that leaves upload_resume becomes a 500 response
Abort ==
  /\ pc = "raised"
  /\ response' = ErrorResponse(500, "Internal Server Error")
  /\ pc' = "idle"
  /\ UNCHANGED <<exc, request, uploads, resume_text, job_type, ats_prompt, store, write, clock, threads>>
  /\ UNCHANGED genVars
  /\ UNCHANGED parseVars

InitUpload ==
  /\ pc = "idle"
  /\ exc = ""
  /\ max_retries = 0 /\ initial_delay = 0 /\ i = 0 /\ calls = 0 /\ delays = <<>>
  /\ last = NoOutcome
  /\ gemini_response = PyNone
  /\ gemini_output = PyNone
  /\ lines = <<>> /\ idx = 0
  /\ score = PyNone /\ suggestions = <<>>
  /\ parsed = NoResult
  /\ UploadIdle

NextUpload ==
  \/ Receive \/ Extract \/ Remove \/ Prepare \/ UploadGenerate \/ CallParse
  \/ ParseEnter \/ ParseLine \/ ParseReturn \/ Save \/ Respond \/ Abort

SpecUpload == InitUpload /\ [][NextUpload]_vars

\* ------------------------------------------------------------------------
\* upload_resume, two requests served at the same time
\* ------------------------------------------------------------------------
Threads == {1, 2}

Thread(at, req, text, resp) ==
  [pc |-> at, request |-> req, resume_text |-> text, response |-> resp]

\* what the generation call and the parse give, taken as one outcome
AnalysisResults == {NoResponseResult, [atsScore |-> PyInt(82), suggestions |-> << <<"a">> >>]}

TReceive(t) ==
  /\ threads[t].pc = "start"
  /\ LET req == threads[t].request IN
       IF Validate(req) = "ok"
       THEN /\ uploads' = [uploads EXCEPT ![req.filename] = <<req.doc>>]
            /\ threads' = [threads EXCEPT ![t].pc = "saved"]
       ELSE /\ threads' = [threads EXCEPT ![t].pc = "finished",
                                          ![t].response = ErrorResponse(400, Validate(req))]
            /\ UNCHANGED uploads
  /\ UNCHANGED <<pc, exc, request, resume_text, job_type, ats_prompt, store, write, response, clock>>
  /\ UNCHANGED genVars
  /\ UNCHANGED parseVars

TExtract(t) ==
  /\ threads[t].pc = "saved"
  /\ threads' = [threads EXCEPT ![t].pc = "extracted",
                                ![t].resume_text = extract_text_from_pdf(uploads, threads[t].request.filename)]
  /\ UNCHANGED <<pc, exc, request, uploads, resume_text, job_type, ats_prompt, store, write, response, clock>>
  /\ UNCHANGED genVars
  /\ UNCHANGED parseVars

TRemove(t) ==
  /\ threads[t].pc = "extracted"
  /\ IF uploads[threads[t].request.filename] = NoFile
     THEN /\ threads' = [threads EXCEPT ![t].pc = "raised",
                                        ![t].response = ErrorResponse(500, "Internal Server Error")]
          /\ UNCHANGED uploads
     ELSE /\ uploads' = [uploads EXCEPT ![threads[t].request.filename] = NoFile]
          /\ threads' = [threads EXCEPT ![t].pc = "removed"]
  /\ UNCHANGED <<pc, exc, request, resume_text, job_type, ats_prompt, store, write, response, clock>>
  /\ UNCHANGED genVars
  /\ UNCHANGED parseVars

\* the rest of the handler in one step: its locals are not shared
TFinish(t) ==
  /\ threads[t].pc = "removed"
  /\ IF ~Truthy(threads[t].resume_text)
     THEN /\ threads' = [threads EXCEPT ![t].pc = "finished",
                                        ![t].response = ErrorResponse(500, ExtractionError)]
          /\ UNCHANGED <<store, clock>>
     ELSE \E result \in AnalysisResults, db \in {"ok", "error"} :
            /\ clock' = clock + 1
            /\ store' = IF db = "ok"
                        THEN Append(store, Row(store, clock', threads[t].resume_text.s,
                                               JobTypeOf(threads[t].request.form), result))
                        ELSE store
            /\ threads' = [threads EXCEPT ![t].pc = "finished",
                                          ![t].response = Response(200, "", result, threads[t].resume_text.s)]
  /\ UNCHANGED <<pc, exc, request, uploads, resume_text, job_type, ats_prompt, write, response>>
  /\ UNCHANGED genVars
  /\ UNCHANGED parseVars

InitConcurrent ==
  /\ pc = "concurrent"
  /\ exc = ""
  /\ max_retries = 0 /\ initial_delay = 0 /\ i = 0 /\ calls = 0 /\ delays = <<>>
  /\ last = NoOutcome
  /\ gemini_response = PyNone
  /\ gemini_output = PyNone
  /\ lines = <<>> /\ idx = 0
  /\ score = PyNone /\ suggestions = <<>>
  /\ parsed = NoResult
  /\ request = NoRequest
  /\ uploads = EmptyFolder
  /\ resume_text = PyNone /\ job_type = <<>> /\ ats_prompt = <<>>
  /\ store = <<>>
  /\ write = "none"
  /\ response = NoResponse
  /\ clock = 0
  /\ threads \in [Threads -> {Thread("start", req, PyNone, NoResponse) : req \in ConcurrentRequests}]

NextConcurrent == \E t \in Threads : TReceive(t) \/ TExtract(t) \/ TRemove(t) \/ TFinish(t)

SpecConcurrent == InitConcurrent /\ [][NextConcurrent]_vars

\* ------------------------------------------------------------------------
\* Properties
\* ------------------------------------------------------------------------
IsReplyText(v) == v.t = "str" /\ v.s # <<>>

\* the path candidates[0].content.parts[0].text of a body of that shape
TextIn(b) == b.pairs[1][2].items[1].pairs[1][2].pairs[1][2].items[1].pairs[1][2]

\* bodies in which a field of the path is absent or empty
SoftBodies ==
  {AtLevel(k, x) : k \in {0, 1, 3, 4, 6}, x \in Empties}
    \cup {AtLevel(k, x) : k \in {0, 2, 3, 5}, x \in {OtherObj, PyDict(<<>>)}}

RECURSIVE SumSeq(_)
SumSeq(q) == IF q = <<>> THEN 0 ELSE Head(q) + SumSeq(Tail(q))

RECURSIVE PowerSum(_)
PowerSum(n) == IF n < 0 THEN 0 ELSE 2 ^ n + PowerSum(n - 1)

MatchingLines(ls) == {p \in 1..Len(ls) : ScoreSearch(ls[p]).matched}
ConvertibleLines(ls) == {p \in MatchingLines(ls) : IntOf(ScoreSearch(ls[p]).group).ok}
LineScore(ls, p) == PyInt(IntOf(ScoreSearch(ls[p]).group).n)
FirstOf(S) == CHOOSE p \in S : \A q \in S : p <= q

\* C1: the pipeline never propagates an error: whatever the service does,
\* call_gemini_api_with_retry returns the reply text or None without raising,
\* and parse_ats_response then returns a score and a suggestions list.
C1_NeverPropagates ==
  /\ pc # "raised"
  /\ pc = "returned" => gemini_response.t \in {"none", "str"}
  /\ pc = "done" => parsed.atsScore.t \in {"int", "str"} /\ Len(parsed.suggestions) >= 1

\* C2: for every input of parse_ats_response the returned suggestions list
\* has at least one element, and when the scan collected no suggestion (or
\* there was no reply to scan) it is exactly one filler entry.
C2_SuggestionsNeverEmpty ==
  [][(pc # "done" /\ pc' = "done") =>
       /\ Len(parsed'.suggestions) >= 1
       /\ (pc = "parse" \/ suggestions = <<>>) =>
            parsed'.suggestions \in {<<NoResponseMsg>>, <<KeywordFiller>>, <<CouldNotParseFiller>>}]_vars

C2_Witness ==
  /\ pc = "done"
  /\ IsReplyText(gemini_output)
  /\ parsed.suggestions = <<CouldNotParseFiller>>

\* C3: when every attempt fails with a RequestException, the transport is
\* invoked exactly max_retries times, None is returned and the delays slept
\* sum to initial_delay * (2^0 + ... + 2^(max_retries-2)), for max_retries >= 1.
C3_AlwaysFailing ==
  (pc = "returned" /\ last.kind \in RequestExceptions /\ max_retries >= 1) =>
    /\ calls = max_retries
    /\ gemini_response = PyNone
    /\ SumSeq(delays) = initial_delay * PowerSum(max_retries - 2)

C3_Witness ==
  /\ pc = "returned"
  /\ last.kind \in RequestExceptions
  /\ max_retries = 4
  /\ initial_delay = 2
  /\ delays = <<2, 4, 8>>

\* C4: when attempts 1..k-1 fail with a RequestException and attempt k
\* receives a well-formed body with a non-empty text, exactly that text is
\* returned after exactly k transport calls and k-1 sleeps.
C4_SuccessOnAttemptK ==
  (last.kind = "json" /\ last.body \in TextBodies /\ TextIn(last.body).s # <<>>) =>
    /\ pc = "returned"
    /\ gemini_response = TextIn(last.body)
    /\ calls = i + 1
    /\ calls <= max_retries
    /\ Len(delays) = i

C4_Witness ==
  /\ pc = "returned"
  /\ last.kind = "json"
  /\ gemini_response = PyStr(Template(82, << <<"a">>, <<"b", Space, "a">> >>))
  /\ calls = 3
  /\ max_retries = 5

\* C5: a decoded body in which a field of candidates[0].content.parts[0].text
\* is absent or empty makes call_gemini_api_with_retry return None at once:
\* no further attempt and no sleep, however many attempts remain and however
\* many retryable failures came before.
C5_SoftFailureReturnsAtOnce ==
  (last.kind = "json" /\ last.body \in SoftBodies) =>
    /\ pc = "returned"
    /\ gemini_response = PyNone
    /\ calls = i + 1
    /\ Len(delays) = i

C5_Witness ==
  /\ pc = "returned"
  /\ last = Outcome("json", AtParts(PyList(<<>>)))
  /\ calls = 2
  /\ max_retries = 5

\* C6: when more than one line of the reply matches the score pattern, the
\* returned score is the integer of the first such line.
C6_FirstScoreWins ==
  (/\ pc = "done"
   /\ IsReplyText(gemini_output)
   /\ Cardinality(MatchingLines(lines)) > 1
   /\ FirstOf(MatchingLines(lines)) \in ConvertibleLines(lines)) =>
    parsed.atsScore = LineScore(lines, FirstOf(MatchingLines(lines)))

\* C7: when the scan of a non-empty reply collected no suggestion, the single
\* filler depends on the score: the keyword filler when the score is a number,
\* the could-not-parse filler with score "N/A" otherwise; the two fillers and
\* the no-response message are three different texts.
C7_FillerByScore ==
  [][(pc = "scan" /\ pc' = "done" /\ suggestions = <<>>) =>
       /\ IF score.t = "int"
          THEN parsed' = [atsScore |-> score, suggestions |-> <<KeywordFiller>>]
          ELSE parsed' = [atsScore |-> PyStr(NA), suggestions |-> <<CouldNotParseFiller>>]
       /\ KeywordFiller # CouldNotParseFiller
       /\ KeywordFiller # NoResponseMsg
       /\ CouldNotParseFiller # NoResponseMsg]_vars

C7_Witness ==
  /\ pc = "done"
  /\ parsed.atsScore.t = "int"
  /\ parsed.suggestions = <<KeywordFiller>>

\* C8: parse_ats_response(None) returns score "N/A" and the one suggestion
\* "Could not get a response from AI.", and does not raise.
C8_ParseUnavailable ==
  gemini_output = PyNone =>
    /\ pc # "raised"
    /\ pc = "done" =>
         parsed = [atsScore |-> PyStr(NA), suggestions |-> << <<"Could not get a response from AI.">> >>]

C8_Witness ==
  /\ pc = "done"
  /\ gemini_output = PyNone
  /\ parsed.suggestions = <<NoResponseMsg>>

\* C9 as stated: the score is "N/A" exactly when no line of the reply matches
\* the score pattern, and otherwise the integer of the matched digits.
C9_NAIffNoMatch ==
  (pc = "done" /\ gemini_output.t = "str") =>
    /\ parsed.atsScore = PyStr(NA) <=> MatchingLines(lines) = {}
    /\ MatchingLines(lines) # {} =>
         \E p \in MatchingLines(lines) : parsed.atsScore = LineScore(lines, p)

\* C9 amended: the score is "N/A" exactly when no line of the reply matches
\* the score pattern with a digit run that int() converts, and otherwise the
\* integer of the digits of such a line; a missing score is never 0.
C9_NAIffNoConvertibleMatch ==
  (pc = "done" /\ gemini_output.t = "str") =>
    /\ parsed.atsScore = PyStr(NA) <=> ConvertibleLines(lines) = {}
    /\ ConvertibleLines(lines) # {} =>
         \E p \in ConvertibleLines(lines) : parsed.atsScore = LineScore(lines, p)
    /\ ConvertibleLines(lines) = {} => parsed.atsScore # PyInt(0)

C9_Witness ==
  /\ pc = "done"
  /\ IsReplyText(gemini_output)
  /\ MatchingLines(lines) # {}
  /\ ConvertibleLines(lines) = {}
  /\ parsed.atsScore = PyStr(NA)

\* C10: for a reply made of one score line "ATS Score: n/100", the heading
\* line and k >= 1 bullet lines, the result is score n and exactly the k
\* bullet texts, hyphen and space removed, in order.
C10_TemplateReply ==
  (pc = "done" /\ gemini_output.t = "str" /\ gemini_output.s \in TemplateTexts) =>
    \A n \in TemplateScores, texts \in SeqsUpTo(BulletTexts, MaxBullets) :
      gemini_output.s = Template(n, texts) =>
        parsed = [atsScore |-> PyInt(n), suggestions |-> texts]

C10_Witness ==
  /\ pc = "done"
  /\ gemini_output = PyStr(<<ScoreLabel, Space, "8", "2", "/100", NL, Heading, NL,
                             Hyphen, Space, "a", NL, Hyphen, Space, "b", Space, "a">>)
  /\ parsed = [atsScore |-> PyInt(82), suggestions |-> << <<"a">>, <<"b", Space, "a">> >>]

\* C11: every element of the returned suggestions list is a non-empty string,
\* also for replies with a bullet line made only of hyphens and spaces.
C11_SuggestionsNonEmptyStrings ==
  pc = "done" => \A k \in 1..Len(parsed.suggestions) : parsed.suggestions[k] # <<>>

\* C12 as stated: with attempts numbered from 1, the delay slept before
\* attempt n is initial_delay * 2^(n-1), and no delay follows the final attempt.
C12_DelayBeforeAttempt ==
  /\ \A n \in 2..(Len(delays) + 1) : delays[n - 1] = initial_delay * 2 ^ (n - 1)
  /\ max_retries >= 1 => Len(delays) <= max_retries - 1
  /\ (pc # "generate" /\ calls >= 1) => Len(delays) = calls - 1

\* C12 amended: with attempts numbered from 1, the delay slept before attempt
\* n (2 <= n <= max_retries) is initial_delay * 2^(n-2); a delay occurs only
\* between two attempts and never after the final one.
C12_DelayBeforeAttemptFromZero ==
  /\ \A n \in 2..(Len(delays) + 1) : delays[n - 1] = initial_delay * 2 ^ (n - 2)
  /\ max_retries >= 1 => Len(delays) <= max_retries - 1
  /\ pc = "generate" => Len(delays) = calls
  /\ (pc # "generate" /\ calls >= 1) => Len(delays) = calls - 1

C12_Witness ==
  /\ pc = "returned"
  /\ max_retries = 5
  /\ initial_delay = 1
  /\ calls = 5
  /\ delays = <<1, 2, 4, 8>>

IsBulletLine(l) == ~ScoreSearch(l).matched /\ StartsWith(Strip(l), Hyphen)
IsPlainLine(l) ==
  /\ ~ScoreSearch(l).matched
  /\ ~StartsWith(Strip(l), Hyphen)
  /\ ~Contains(l, Heading)
  /\ Strip(l) # <<>>
BulletsBefore(ls, n) == Cardinality({p \in 1..(n - 1) : IsBulletLine(ls[p])})

\* C16: while the reply is scanned, a plain line (non-blank, not a score line,
\* not a bullet, not a heading) is appended only when no suggestion has been
\* collected yet and it does not contain "ATS Score:"; so at most one collected
\* suggestion comes from a plain line, and it is then the first one.
C16_FallbackOnlyOnce ==
  /\ [][(pc = "scan" /\ pc' = "scan" /\ IsPlainLine(lines[idx])) =>
          IF suggestions = <<>> /\ ~Contains(lines[idx], ScoreLabel)
          THEN suggestions' = <<Strip(lines[idx])>>
          ELSE suggestions' = suggestions]_vars
  /\ [](pc = "scan" =>
          LET b == BulletsBefore(lines, idx) IN
            /\ Len(suggestions) \in {b, b + 1}
            /\ Len(suggestions) = b + 1 =>
                 \E p \in 1..(idx - 1) :
                   /\ IsPlainLine(lines[p])
                   /\ suggestions[1] = Strip(lines[p])
                   /\ BulletsBefore(lines, p) = 0)

C16_Witness ==
  /\ pc = "scan"
  /\ idx = 4
  /\ lines = << <<"a">>, <<Hyphen, Space, "a">>, <<Space, "b", Space, Hyphen>> >>
  /\ suggestions = << <<"a">>, <<"a">> >>

\* C18: whatever mix of retryable failures, soft failures and successes the
\* transport produces, call_gemini_api_with_retry ends with the reply text or
\* None after at most max_retries attempts and at most max_retries - 1 sleeps.
C18_Terminates ==
  /\ <>(pc # "generate")
  /\ [](calls <= max_retries)
  /\ [](max_retries >= 1 => Len(delays) <= max_retries - 1)
  /\ []((pc # "generate" /\ last.kind = "json" /\ last.body \in SoftBodies \cup TextBodies) =>
          pc = "returned" /\ gemini_response.t \in {"none", "str"})
  /\ []((pc # "generate" /\ last.kind # "json") =>
          pc = "returned" /\ gemini_response = PyNone)

C18_Witness ==
  /\ pc = "returned"
  /\ max_retries = 3
  /\ calls = 3
  /\ Len(delays) = 2
  /\ last = Outcome("json", AtText(PyStr(<<"a">>)))

\* requests that are to be turned away: no file part, no name, a name that
\* is not a .pdf name, or a document without extractable text
Rejectable(req) ==
  \/ ~req.has_file
  \/ req.filename \notin PdfNames
  \/ req.doc \in {ScannedPdf, CorruptPdf}

RejectionErrors ==
  {"No resume file part", "No selected file", "Invalid file type. Only PDF is supported.",
   "Failed to extract text from PDF. Please ensure it's a searchable PDF."}

\* C13: a request with no file part, an empty name, a name not ending in
\* ".pdf", or a document whose extraction fails or is empty gets an error
\* response; in that request the generation service is never invoked and no
\* row is appended to the results table.
C13_RejectedBeforePipeline ==
  /\ []((clock >= 1 /\ Rejectable(request)) =>
          /\ pc \in {"idle", "saved", "extracted", "removed"}
          /\ calls = 0
          /\ write = "none"
          /\ pc = "idle" => response.status \in {400, 500} /\ response.error \in RejectionErrors)
  /\ [][Rejectable(request') => store' = store]_vars

C13_Witness ==
  /\ pc = "idle"
  /\ request = UploadRequest(TRUE, <<"cv", ".pdf">>, ScannedPdf, PyStr(<<"d">>))
  /\ response = ErrorResponse(500, ExtractionError)
  /\ Len(store) = 1

\* C14: the results table is append-only: a request that reaches the analysis
\* appends exactly one row unless the write fails, a rejected request appends
\* none, and no request changes or deletes an earlier row.
C14_AppendOnly ==
  /\ [][/\ Len(store') \in {Len(store), Len(store) + 1}
        /\ SubSeq(store', 1, Len(store)) = store
        /\ Len(store') = Len(store) + 1 <=> (write' = "ok" /\ write = "none")]_vars
  /\ []((pc = "idle" /\ clock >= 1) =>
          /\ (ats_prompt # <<>> /\ write # "error") => write = "ok"
          /\ ats_prompt = <<>> => write = "none")

WhitespaceOnly(str) == \A p \in 1..Len(str) : str[p] \in Whitespace

\* C15: the job type of the prompt and of the stored row is "General Job"
\* when the job_type field is absent, empty or only whitespace, and otherwise
\* the submitted value without its surrounding whitespace.
C15_JobTypeDefault ==
  ats_prompt # <<>> =>
    LET expected ==
          IF request.form = PyNone \/ WhitespaceOnly(request.form.s) THEN <<"General Job">>
          ELSE IF request.form = PyStr(<<Space, "q", Space, "a", Space>>) THEN <<"q", Space, "a">>
          ELSE request.form.s
    IN /\ job_type = expected
       /\ ats_prompt = BuildPrompt(expected, resume_text.s)
       /\ write = "ok" => store[Len(store)].job_type = expected

C15_Witness ==
  /\ pc = "idle"
  /\ write = "ok"
  /\ request.form = PyStr(<<Space, "q", Space, "a", Space>>)
  /\ store[Len(store)].job_type = <<"q", Space, "a">>

\* two uploads alone in the folder: what each would extract
OwnText(req) == extract_text_from_pdf([EmptyFolder EXCEPT ![req.filename] = <<req.doc>>], req.filename)

\* C17: for every interleaving of two upload requests, also with the same
\* file name, each request's extracted text and result come from its own
\* document and neither fails because of the other's save or delete.
C17_NoInterference ==
  \A t \in DOMAIN threads :
    /\ threads[t].pc # "raised"
    /\ threads[t].pc \in {"extracted", "removed", "finished"} =>
         threads[t].resume_text = OwnText(threads[t].request)
    /\ threads[t].pc = "finished" =>
         IF Truthy(OwnText(threads[t].request))
         THEN /\ threads[t].response.status = 200
              /\ threads[t].response.extracted_text = OwnText(threads[t].request).s
         ELSE threads[t].response = ErrorResponse(500, ExtractionError)

\* json.loads of a serialized list of str
RECURSIVE JsonScan(_, _, _, _)
JsonScan(toks, inside, cur, acc) ==
  IF toks = <<>> THEN acc
  ELSE IF ~inside
  THEN JsonScan(Tail(toks), Head(toks) = "\"", <<>>, acc)
  ELSE IF Head(toks) = "\\"
  THEN JsonScan(Tail(Tail(toks)), TRUE, Append(cur, IF toks[2] = "n" THEN NL ELSE toks[2]), acc)
  ELSE IF Head(toks) = "\""
  THEN JsonScan(Tail(toks), FALSE, <<>>, Append(acc, cur))
  ELSE JsonScan(Tail(toks), TRUE, Append(cur, Head(toks)), acc)

JsonLoads(toks) == JsonScan(toks, FALSE, <<>>, <<>>)

\* C19: the stored row agrees with the response of the same request:
\* ats_score is NULL exactly when the returned atsScore is "N/A" and otherwise
\* the returned integer, suggestions is the serialization of the returned
\* list, and job_type and resume_text are those of the prompt.
C19_RowMatchesResponse ==
  (pc = "idle" /\ write = "ok") =>
    LET row == store[Len(store)] IN
      /\ response.status = 200
      /\ row.ats_score = PyNone <=> response.atsScore = PyStr(<<"N/A">>)
      /\ row.ats_score # PyNone => (row.ats_score = response.atsScore /\ row.ats_score.t = "int")
      /\ Head(row.suggestions) = "[" /\ row.suggestions[Len(row.suggestions)] = "]"
      /\ JsonLoads(row.suggestions) = response.suggestions
      /\ ats_prompt = BuildPrompt(row.job_type, row.resume_text)
      /\ row.resume_text = response.extracted_text

C19_Witness ==
  /\ pc = "idle"
  /\ write = "ok"
  /\ response.atsScore = PyInt(0)
  /\ store[Len(store)].ats_score = PyInt(0)
  /\ Len(store) = 2
  /\ store[1].suggestions = <<"[", "\"", "\\", "\"", "a", "\\", "\\", "\"", "]">>

\* C20: once a request whose file was saved has got past the removal, and
\* whenever no request is between save and removal, the uploads folder holds
\* no file: the file is gone whether extraction succeeded, gave empty text
\* or failed, and before the generation service is called.
C20_UploadRemoved ==
  /\ pc \notin {"saved", "extracted"} => \A n \in DOMAIN uploads : uploads[n] = NoFile
  /\ calls >= 1 => uploads[request.filename] = NoFile

C20_Witness ==
  /\ pc = "idle"
  /\ request.doc = CorruptPdf
  /\ request.filename = <<"cv", ".pdf">>
  /\ response = ErrorResponse(500, ExtractionError)
  /\ uploads[<<"cv", ".pdf">>] = NoFile
====
